---- MODULE Spec2Model ----
(***************************************************************************)
(* Go-Back-N ARQ over a reliable FIFO byte stream with an injected fault   *)
(* model: src/gemini/sender.py, src/gemini/receiver.py, src/gemini/utils.py *)
(*                                                                         *)
(* Strings are sequences of Unicode code points, byte strings are          *)
(* sequences of 0..255.  Every `with lock:` block of the sender is two     *)
(* steps: taking the lock, then the whole block together with the release. *)
(* Nothing another thread can observe happens inside a block: the frames a *)
(* block writes to the socket are read by the receiver only, and a timer   *)
(* that expires while a block runs only queues its callback on the lock.   *)
(***************************************************************************)
EXTENDS Integers, Sequences, FiniteSets, TLC

\* ---------------------------------------------------------------------
\* Protocol constants (utils.py)
\* ---------------------------------------------------------------------
WINDOW_SIZE == 4
MAX_SEQ_NUM == 7
CRC8_POLYNOMIAL == 7

\* ---------------------------------------------------------------------
\* Bounds of the model
\* ---------------------------------------------------------------------
\* number of chunks the message is split into
NumChunks == 9
\* code points per chunk (chunk_size)
ChunkSize == 1
\* DATA frames the fault injector may drop in one run
MaxDataLoss == 1
\* DATA frames the fault injector may corrupt in one run
MaxDataErr == 1
\* ACK frames the fault injector may drop in one run
MaxAckLoss == 3
\* timer callbacks that may be queued on the lock at the same time
MaxCallbacks == 1
\* Scenario A: number of chunks sent, and the chunk whose first transmission
\* is dropped
ScenarioChunks == 6
DroppedFrame == 2
\* longest byte sequence given to calculate_crc8 on its own
MaxPayloadLen == 2
\* a timer expires only while at most this many DATA frames are unread
MaxBacklog == 0
\* ACK frames the open stream holds before send_ack blocks
MaxAckChan == 1

\* bit positions the fault injector may choose (random.randint(0, 7))
ErrBits == {0, 7}

SeqNums == 0 .. MAX_SEQ_NUM

\* last_accepted_seq = None
None == -1

\* ---------------------------------------------------------------------
\* Bit arithmetic on 8-bit values
\* ---------------------------------------------------------------------
RECURSIVE XorBits(_, _, _)
XorBits(a, b, n) ==
    IF n = 0 THEN 0
    ELSE (((a % 2) + (b % 2)) % 2) + 2 * XorBits(a \div 2, b \div 2, n - 1)

Xor8(a, b) == XorBits(a, b, 8)

RECURSIVE Pow2(_)
Pow2(n) == IF n = 0 THEN 1 ELSE 2 * Pow2(n - 1)

\* ---------------------------------------------------------------------
\* CRC-8 (utils.py calculate_crc8, verify_crc8)
\* ---------------------------------------------------------------------
\* the shift without the polynomial
Crc8ShiftNoPoly(crc) == (crc * 2) % 256

\* one pass of the inner loop: shift left, xor the polynomial when the top
\* bit was set, mask to 8 bits
Crc8Shift(crc) ==
    IF crc >= 128 THEN Xor8((crc * 2) % 256, CRC8_POLYNOMIAL)
    ELSE (crc * 2) % 256

RECURSIVE Crc8Shifts(_, _)
Crc8Shifts(crc, n) == IF n = 0 THEN crc ELSE Crc8Shifts(Crc8Shift(crc), n - 1)

RECURSIVE Crc8From(_, _)
Crc8From(crc, data_bytes) ==
    IF data_bytes = <<>> THEN crc
    ELSE Crc8From(Crc8Shifts(Xor8(crc, Head(data_bytes)), 8), Tail(data_bytes))

calculate_crc8(data_bytes) == Crc8From(0, data_bytes)

verify_crc8(data_bytes, received_crc) == calculate_crc8(data_bytes) = received_crc

\* ---------------------------------------------------------------------
\* UTF-8 (str.encode('utf-8'), bytes.decode('utf-8', errors='ignore'))
\* for code points below 2048
\* ---------------------------------------------------------------------
RECURSIVE Utf8Encode(_)
Utf8Encode(s) ==
    IF s = <<>> THEN <<>>
    ELSE LET c == Head(s) IN
         (IF c < 128 THEN <<c>> ELSE <<192 + (c \div 64), 128 + (c % 64)>>)
            \o Utf8Encode(Tail(s))

IsCont(b) == b >= 128 /\ b <= 191

\* an invalid byte is skipped and decoding resumes at the next byte
RECURSIVE Utf8DecodeIgnore(_)
Utf8DecodeIgnore(bs) ==
    IF bs = <<>> THEN <<>>
    ELSE LET b == Head(bs) IN
         IF b < 128 THEN <<b>> \o Utf8DecodeIgnore(Tail(bs))
         ELSE IF b >= 194 /\ b <= 223 /\ Len(bs) >= 2 /\ IsCont(bs[2])
              THEN <<(b - 192) * 64 + (bs[2] - 128)>>
                       \o Utf8DecodeIgnore(Tail(Tail(bs)))
         ELSE Utf8DecodeIgnore(Tail(bs))

\* ---------------------------------------------------------------------
\* Sequence arithmetic (sender.py seq_add, seq_greater_equal)
\* ---------------------------------------------------------------------
seq_add(seq, val) == (seq + val) % (MAX_SEQ_NUM + 1)

Abs(x) == IF x < 0 THEN -x ELSE x

\* plain integer order, no wraparound
seq_greater_equalPlain(s1, s2) == s1 >= s2

\* abs(s1 - s2) <= MAX_SEQ_NUM / 2 is a comparison with the real 3.5
seq_greater_equal(s1, s2) ==
    IF s1 = s2 THEN TRUE
    ELSE IF 2 * Abs(s1 - s2) <= MAX_SEQ_NUM THEN s1 > s2
    ELSE s1 < s2

\* ---------------------------------------------------------------------
\* The application message (sender.py main_sender) and its chunks
\* ---------------------------------------------------------------------
\* "Este é um exemplo de mensagem ..." as code points
MessageText ==
    <<69, 115, 116, 101, 32, 233, 32, 117, 109, 32, 101, 120, 101, 109, 112,
      108, 111, 32, 100, 101, 32, 109, 101, 110, 115, 97, 103, 101, 109, 32>>

Min(a, b) == IF a < b THEN a ELSE b

message == SubSeq(MessageText, 1, Min(Len(MessageText), NumChunks * ChunkSize))

\* message_chunks[i], 0-based: message[i*chunk_size : (i+1)*chunk_size]
message_chunks(i) ==
    SubSeq(message, i * ChunkSize + 1, Min(Len(message), (i + 1) * ChunkSize))

\* len(message_chunks)
NumMessageChunks == (Len(message) + ChunkSize - 1) \div ChunkSize

\* ---------------------------------------------------------------------
\* Frames (utils.py Frame).  pos is a history field: the index of the chunk
\* the frame was built from; no operation of the program reads it.
\* ---------------------------------------------------------------------
Frame(seq_num, frame_type, data, crc, pos) ==
    [seq_num |-> seq_num, frame_type |-> frame_type, data |-> data,
     crc |-> crc, pos |-> pos]

\* ---------------------------------------------------------------------
\* State
\* ---------------------------------------------------------------------
VARIABLES
    sequence_number,   \* sender.py: next sequence number to assign
    expected_ack,      \* sender.py: window base
    send_buffer,       \* sender.py: OrderedDict, as the sequence of its frames
    timers,            \* sender.py: seq_num -> "none" (no entry) | "armed" |
                       \*            "fired" | "cancelled"
    lock,              \* sender.py: TRUE while some path is inside `with lock`
    running,           \* sender.py: running flag
    data_index,        \* main_sender: index of the next chunk
    pc_main,           \* main_sender: "loop" | "in" | "exited" | "done"
    pc_ack,            \* listen_for_acks: "recv" | "in" | "done"
    ack_num,           \* listen_for_acks: the ACK number being processed
    callback,          \* retransmit_from threads: seq -> "none" | "wait" | "in"
    sock_open,         \* sender_socket not yet closed
    expected_seq_num,  \* receiver.py
    received_message,  \* receiver.py: the assembled list
    last_accepted_seq, \* receiver.py
    r_running,         \* receiver.py: running flag
    data_chan,         \* stream sender -> receiver: DATA frames not yet read
    ack_chan,          \* stream receiver -> sender: ACK numbers not yet read
    data_lost,         \* DATA frames dropped by simulate_loss so far
    data_err,          \* DATA frames corrupted by simulate_error so far
    ack_lost,          \* ACK frames dropped by simulate_loss so far
    accepted,          \* history: pos of every frame the receiver appended
    acked,             \* history: positions expected_ack has advanced
    num_chunks,        \* main_sender: len(message_chunks)
    call_args,         \* arguments of a function called on its own
    call_result        \* what that call returned, <<>> before it returns

vars == <<sequence_number, expected_ack, send_buffer, timers, lock, running,
          data_index, pc_main, pc_ack, ack_num, callback, sock_open,
          expected_seq_num, received_message, last_accepted_seq, r_running,
          data_chan, ack_chan, data_lost, data_err, ack_lost, accepted, acked,
          num_chunks, call_args, call_result>>

\* what no step of the protocol changes
fixedVars == <<num_chunks, call_args, call_result>>

senderCore == <<sequence_number, expected_ack, send_buffer, data_index>>
receiverVars == <<expected_seq_num, received_message, last_accepted_seq,
                  r_running, accepted>>

\* the state after the module globals are set and the message is split into
\* chunks chunks, with lost, err and acklost faults already injected
Start(chunks, lost, err, acklost) ==
    /\ sequence_number = 0
    /\ expected_ack = 0
    /\ send_buffer = <<>>
    /\ timers = [s \in SeqNums |-> "none"]
    /\ lock = FALSE
    /\ running = TRUE
    /\ data_index = 0
    /\ pc_main = "loop"
    /\ pc_ack = "recv"
    /\ ack_num = 0
    /\ callback = [s \in SeqNums |-> "none"]
    /\ sock_open = TRUE
    /\ expected_seq_num = 0
    /\ received_message = <<>>
    /\ last_accepted_seq = None
    /\ r_running = TRUE
    /\ data_chan = <<>>
    /\ ack_chan = <<>>
    /\ data_lost = lost
    /\ data_err = err
    /\ ack_lost = acklost
    /\ accepted = <<>>
    /\ acked = 0
    /\ num_chunks = chunks

Init ==
    /\ Start(NumMessageChunks, 0, 0, 0)
    /\ call_args = <<>>
    /\ call_result = <<>>

\* ---------------------------------------------------------------------
\* send_buffer as an ordered dictionary keyed by seq_num
\* ---------------------------------------------------------------------
BufKeys(buf) == {buf[i].seq_num : i \in 1 .. Len(buf)}

\* send_buffer[key] = frame: a present key keeps its place
BufPut(buf, frame) ==
    IF frame.seq_num \in BufKeys(buf)
    THEN [i \in 1 .. Len(buf) |->
             IF buf[i].seq_num = frame.seq_num THEN frame ELSE buf[i]]
    ELSE Append(buf, frame)

\* the entry is left in place
BufDelKeep(buf, key) == buf

\* del send_buffer[key]
BufDel(buf, key) == SelectSeq(buf, LAMBDA f : f.seq_num # key)

\* ---------------------------------------------------------------------
\* Timers (sender.py start_timer, stop_timer; threading.Timer)
\* ---------------------------------------------------------------------
TimerKeys(tm) == {s \in SeqNums : tm[s] # "none"}

\* the replaced timer is cancelled and dropped; the new one is armed
start_timer(tm, seq_num) == [tm EXCEPT ![seq_num] = "armed"]

\* Timer.cancel(): no effect on a timer whose callback has started
Cancel(st) == IF st = "armed" THEN "cancelled" ELSE st

\* the timer is cancelled and its entry is left in timers
stop_timerKeepEntry(tm, seq_num) == [tm EXCEPT ![seq_num] = Cancel(@)]

\* cancel and delete the entry, if there is one
stop_timer(tm, seq_num) == [tm EXCEPT ![seq_num] = "none"]

\* for timer in timers.values(): timer.cancel()
CancelAll(tm) == [s \in SeqNums |-> Cancel(tm[s])]

\* ---------------------------------------------------------------------
\* Fault injection (utils.py simulate_loss, simulate_error)
\* ---------------------------------------------------------------------
FlipBit(data_bytes, byte_index, bit) ==
    [data_bytes EXCEPT ![byte_index] =
        IF (@ \div Pow2(bit)) % 2 = 1 THEN @ - Pow2(bit) ELSE @ + Pow2(bit)]

\* frame.data after simulate_error flipped one bit of its encoding
Corrupt(data, byte_index, bit) ==
    Utf8DecodeIgnore(FlipBit(Utf8Encode(data), byte_index, bit))

\* ---------------------------------------------------------------------
\* send_frame (sender.py): the outcomes of one call, given the faults used
\* so far.  frame is the buffered object after the call (simulate_error
\* changes it in place), wire the frames written to the socket.
\* ---------------------------------------------------------------------
Wire(frame, open) == IF open THEN <<frame>> ELSE <<>>

\* sendall reaches the receiver: neither end has closed the connection
ConnOpen == sock_open /\ r_running

send_frame(frame, nl, ne, open) ==
    \* simulate_loss returned True
    (IF nl < MaxDataLoss
     THEN {[frame |-> frame, wire |-> <<>>, nl |-> nl + 1, ne |-> ne]}
     ELSE {})
    \cup
    \* no loss, no error
    {[frame |-> frame, wire |-> Wire(frame, open), nl |-> nl, ne |-> ne]}
    \cup
    \* simulate_error flipped a bit; frame.crc stays
    (IF ne < MaxDataErr /\ frame.data # <<>>
     THEN {[frame |-> [frame EXCEPT !.data = Corrupt(frame.data, bi, bit)],
            wire |-> Wire([frame EXCEPT !.data = Corrupt(frame.data, bi, bit)],
                          open),
            nl |-> nl, ne |-> ne + 1] :
              bi \in 1 .. Len(Utf8Encode(frame.data)), bit \in ErrBits}
     ELSE {})

\* ---------------------------------------------------------------------
\* main_sender: the send loop
\* ---------------------------------------------------------------------
\* the loop ends once every chunk has been enqueued
SendLoopCondDataOnly == running /\ data_index < num_chunks

\* while running and (data_index < len(message_chunks) or len(send_buffer) > 0)
SendLoopCond ==
    running /\ (data_index < num_chunks \/ Len(send_buffer) > 0)

\* len(send_buffer) < WINDOW_SIZE
WindowHasRoomOffByOne(buf) == Len(buf) <= WINDOW_SIZE

WindowHasRoom(buf) == Len(buf) < WINDOW_SIZE

\* the inner while loop, from the state st of its variables: the set of
\* states it can end in
RECURSIVE Fill(_, _)
Fill(st, open) ==
    IF WindowHasRoom(st.buf) /\ st.idx < num_chunks
    THEN LET current_data == message_chunks(st.idx)
             frame == Frame(st.seqn, "DATA", current_data,
                            calculate_crc8(Utf8Encode(current_data)), st.idx)
         IN UNION {Fill([buf |-> BufPut(st.buf, r.frame),
                         seqn |-> seq_add(st.seqn, 1),
                         idx |-> st.idx + 1,
                         tm |-> start_timer(st.tm, st.seqn),
                         wire |-> st.wire \o r.wire,
                         nl |-> r.nl, ne |-> r.ne], open) :
                     r \in send_frame(frame, st.nl, st.ne, open)}
    ELSE {st}

MainAcquire ==
    /\ pc_main = "loop"
    /\ SendLoopCond
    /\ ~lock
    /\ lock' = TRUE
    /\ pc_main' = "in"
    /\ UNCHANGED fixedVars
    /\ UNCHANGED <<senderCore, timers, running, pc_ack, ack_num, callback,
                   sock_open, receiverVars, data_chan, ack_chan, data_lost,
                   data_err, ack_lost, acked>>

MainFill ==
    /\ pc_main = "in"
    /\ \E st \in Fill([buf |-> send_buffer, seqn |-> sequence_number,
                       idx |-> data_index, tm |-> timers, wire |-> <<>>,
                       nl |-> data_lost, ne |-> data_err], ConnOpen) :
          /\ send_buffer' = st.buf
          /\ sequence_number' = st.seqn
          /\ data_index' = st.idx
          /\ timers' = st.tm
          /\ data_chan' = data_chan \o st.wire
          /\ data_lost' = st.nl
          /\ data_err' = st.ne
    /\ lock' = FALSE
    /\ pc_main' = "loop"
    /\ UNCHANGED fixedVars
    /\ UNCHANGED <<expected_ack, running, pc_ack, ack_num, callback, sock_open,
                   receiverVars, ack_chan, ack_lost, acked>>

\* the loop condition is false: the loop ends
MainLoopEnd ==
    /\ pc_main = "loop"
    /\ ~SendLoopCond
    /\ pc_main' = "exited"
    /\ UNCHANGED fixedVars
    /\ UNCHANGED <<senderCore, timers, lock, running, pc_ack, ack_num, callback,
                   sock_open, receiverVars, data_chan, ack_chan, data_lost,
                   data_err, ack_lost, acked>>

\* the finally block: running = False, close the socket, cancel the timers
MainCleanup ==
    /\ pc_main = "exited"
    /\ pc_main' = "done"
    /\ running' = FALSE
    /\ sock_open' = FALSE
    /\ timers' = CancelAll(timers)
    /\ UNCHANGED fixedVars
    /\ UNCHANGED <<senderCore, lock, pc_ack, ack_num, callback, receiverVars,
                   data_chan, ack_chan, data_lost, data_err, ack_lost, acked>>

\* ---------------------------------------------------------------------
\* listen_for_acks
\* ---------------------------------------------------------------------
\* only the frame at the base is cleared, whatever the ACK number
ClearAckedBaseOnly(st, current_seq_to_clear, ack) ==
    IF current_seq_to_clear \in BufKeys(st.buf)
    THEN [buf |-> BufDel(st.buf, current_seq_to_clear),
          tm |-> stop_timer(st.tm, current_seq_to_clear)]
    ELSE st

\* the while loop of the forward-progress branch, from current_seq_to_clear
RECURSIVE ClearAcked(_, _, _)
ClearAcked(st, current_seq_to_clear, ack) ==
    IF current_seq_to_clear = ack THEN st
    ELSE ClearAcked(
            IF current_seq_to_clear \in BufKeys(st.buf)
            THEN [buf |-> BufDel(st.buf, current_seq_to_clear),
                  tm |-> stop_timer(st.tm, current_seq_to_clear)]
            ELSE st,
            seq_add(current_seq_to_clear, 1), ack)

\* the ACK is taken as forward progress
IsProgress(ack, base) == seq_greater_equal(ack, base) /\ ack # base

\* the ACK number read as "frame ack was received" (base = ack_num + 1, as
\* in client.py) instead of "next frame expected"
OnAckInclusive(base, buf, tm, ack) ==
    LET st == ClearAcked([buf |-> buf, tm |-> tm], base, seq_add(ack, 1))
    IN [base |-> seq_add(ack, 1), buf |-> st.buf, tm |-> st.tm]

\* the body of `with lock` for one ACK: the new base, buffer and timers
OnAck(base, buf, tm, ack) ==
    IF IsProgress(ack, base)
    THEN LET st == ClearAcked([buf |-> buf, tm |-> tm], base, ack)
         IN [base |-> ack,
             buf |-> st.buf,
             tm |-> IF st.buf = <<>> /\ TimerKeys(st.tm) # {}
                    THEN [s \in SeqNums |-> "none"]
                    ELSE st.tm]
    ELSE [base |-> base, buf |-> buf, tm |-> tm]

\* an ACK frame is read from the socket and the lock is taken
AckRecv ==
    /\ pc_ack = "recv"
    /\ running
    /\ ack_chan # <<>>
    /\ Head(ack_chan) \in SeqNums
    /\ ~lock
    /\ ack_num' = Head(ack_chan)
    /\ ack_chan' = Tail(ack_chan)
    /\ lock' = TRUE
    /\ pc_ack' = "in"
    /\ UNCHANGED fixedVars
    /\ UNCHANGED <<senderCore, timers, running, pc_main, callback, sock_open,
                   receiverVars, data_chan, data_lost, data_err, ack_lost,
                   acked>>

AckProcess ==
    /\ pc_ack = "in"
    /\ LET r == OnAck(expected_ack, send_buffer, timers, ack_num) IN
          /\ expected_ack' = r.base
          /\ send_buffer' = r.buf
          /\ timers' = r.tm
          /\ acked' = acked + ((r.base - expected_ack) % (MAX_SEQ_NUM + 1))
    /\ lock' = FALSE
    /\ pc_ack' = "recv"
    /\ UNCHANGED fixedVars
    /\ UNCHANGED <<sequence_number, data_index, running, pc_main, ack_num,
                   callback, sock_open, receiverVars, data_chan, ack_chan,
                   data_lost, data_err, ack_lost>>

\* `while running` is false: the listener thread ends
AckStop ==
    /\ pc_ack = "recv"
    /\ ~running
    /\ pc_ack' = "done"
    /\ UNCHANGED fixedVars
    /\ UNCHANGED <<senderCore, timers, lock, running, pc_main, ack_num,
                   callback, sock_open, receiverVars, data_chan, ack_chan,
                   data_lost, data_err, ack_lost, acked>>

\* ---------------------------------------------------------------------
\* Timers and retransmit_from
\* ---------------------------------------------------------------------
\* the timer of seq expires: its thread calls retransmit_from(seq), which
\* waits for the lock
TimerFire(seq) ==
    /\ timers[seq] = "armed"
    /\ callback[seq] = "none"
    /\ Cardinality({s \in SeqNums : callback[s] # "none"}) < MaxCallbacks
    /\ r_running => Len(data_chan) <= MaxBacklog
    /\ timers' = [timers EXCEPT ![seq] = "fired"]
    /\ callback' = [callback EXCEPT ![seq] = "wait"]
    /\ UNCHANGED fixedVars
    /\ UNCHANGED <<senderCore, lock, running, pc_main, pc_ack, ack_num,
                   sock_open, receiverVars, data_chan, ack_chan, data_lost,
                   data_err, ack_lost, acked>>

\* every buffered frame is collected, whichever timer expired
FramesFromAll(buf, start_seq_num) == buf

\* only the frame whose timer expired is collected
FramesFromOnly(buf, start_seq_num) ==
    SelectSeq(buf, LAMBDA f : f.seq_num = start_seq_num)

\* frames_to_retransmit, in buffer order
FramesFrom(buf, start_seq_num) ==
    SelectSeq(buf, LAMBDA f : seq_greater_equal(f.seq_num, start_seq_num))

\* the crc is recomputed over the data the frame holds now
Recrc(frame) ==
    IF frame.frame_type = "DATA" /\ frame.data # <<>>
    THEN [frame EXCEPT !.crc = calculate_crc8(Utf8Encode(frame.data))]
    ELSE frame

\* the second loop of retransmit_from over the collected frames
RECURSIVE Retransmit(_, _, _)
Retransmit(st, frames, open) ==
    IF frames = <<>> THEN {st}
    ELSE LET frame == Recrc(Head(frames))
         IN UNION {Retransmit([buf |-> BufPut(st.buf, r.frame),
                               tm |-> start_timer(st.tm, frame.seq_num),
                               wire |-> st.wire \o r.wire,
                               nl |-> r.nl, ne |-> r.ne],
                              Tail(frames), open) :
                     r \in send_frame(frame, st.nl, st.ne, open)}

\* retransmit_from entered without taking the lock
CbAcquireNoLock(seq) ==
    /\ callback[seq] = "wait"
    /\ lock' = TRUE
    /\ callback' = [callback EXCEPT ![seq] = "in"]
    /\ UNCHANGED fixedVars
    /\ UNCHANGED <<senderCore, timers, running, pc_main, pc_ack, ack_num,
                   sock_open, receiverVars, data_chan, ack_chan, data_lost,
                   data_err, ack_lost, acked>>

CbAcquire(seq) ==
    /\ callback[seq] = "wait"
    /\ ~lock
    /\ lock' = TRUE
    /\ callback' = [callback EXCEPT ![seq] = "in"]
    /\ UNCHANGED fixedVars
    /\ UNCHANGED <<senderCore, timers, running, pc_main, pc_ack, ack_num,
                   sock_open, receiverVars, data_chan, ack_chan, data_lost,
                   data_err, ack_lost, acked>>

CbRetransmit(seq) ==
    /\ callback[seq] = "in"
    /\ \E st \in Retransmit([buf |-> send_buffer, tm |-> timers, wire |-> <<>>,
                             nl |-> data_lost, ne |-> data_err],
                            FramesFrom(send_buffer, seq), ConnOpen) :
          /\ send_buffer' = st.buf
          /\ timers' = st.tm
          /\ data_chan' = data_chan \o st.wire
          /\ data_lost' = st.nl
          /\ data_err' = st.ne
    /\ lock' = FALSE
    /\ callback' = [callback EXCEPT ![seq] = "none"]
    /\ UNCHANGED fixedVars
    /\ UNCHANGED <<sequence_number, expected_ack, data_index, running, pc_main,
                   pc_ack, ack_num, sock_open, receiverVars, ack_chan,
                   ack_lost, acked>>

\* ---------------------------------------------------------------------
\* main_receiver
\* ---------------------------------------------------------------------
\* send_ack: the ACK is written to the stream, or simulate_loss drops it
SendAck(n) ==
    \/ /\ ack_chan' = (IF sock_open THEN Append(ack_chan, n) ELSE ack_chan)
       /\ ack_lost' = ack_lost
    \/ /\ ack_lost < MaxAckLoss
       /\ ack_chan' = ack_chan
       /\ ack_lost' = ack_lost + 1

\* the sum without the wraparound
receiver_seq_addNoWrap(seq, val) == seq + val

\* a sequence space of one number
receiver_seq_addSingleSlot(seq, val) == (seq + val) % 1

\* receiver.py seq_add
receiver_seq_add(seq, val) == (seq + val) % (MAX_SEQ_NUM + 1)

\* the CRC check skipped
CrcOkAlways(frame) == TRUE

\* verify_crc8(data_for_crc_check, received_frame.crc)
CrcOk(frame) == verify_crc8(Utf8Encode(frame.data), frame.crc)

\* any frame taken as the expected one
InOrderAny(frame, expected) == TRUE

\* a repetition of the frame just accepted taken as the expected one
InOrderOrDuplicate(frame, expected) ==
    frame.seq_num = expected \/ frame.seq_num = last_accepted_seq

\* received_frame.seq_num == expected_seq_num
InOrder(frame, expected) == frame.seq_num = expected

\* one DATA frame is read and handled
RecvData ==
    /\ r_running
    /\ data_chan # <<>>
    /\ Head(data_chan).frame_type = "DATA"
    /\ sock_open => Len(ack_chan) < MaxAckChan
    /\ LET received_frame == Head(data_chan) IN
          /\ data_chan' = Tail(data_chan)
          /\ IF ~CrcOk(received_frame)
             THEN /\ SendAck(expected_seq_num)
                  /\ UNCHANGED <<expected_seq_num, received_message,
                                 last_accepted_seq, accepted>>
             ELSE IF InOrder(received_frame, expected_seq_num)
             THEN /\ IF last_accepted_seq # expected_seq_num
                     THEN /\ received_message' =
                                Append(received_message, received_frame.data)
                          /\ accepted' = Append(accepted, received_frame.pos)
                          /\ last_accepted_seq' = expected_seq_num
                     ELSE UNCHANGED <<received_message, accepted,
                                      last_accepted_seq>>
                  /\ expected_seq_num' = receiver_seq_add(expected_seq_num, 1)
                  /\ SendAck(receiver_seq_add(expected_seq_num, 1))
             ELSE /\ SendAck(expected_seq_num)
                  /\ UNCHANGED <<expected_seq_num, received_message,
                                 last_accepted_seq, accepted>>
    /\ UNCHANGED fixedVars
    /\ UNCHANGED <<senderCore, timers, lock, running, pc_main, pc_ack, ack_num,
                   callback, sock_open, r_running, data_lost, data_err, acked>>

\* recv returns no bytes: the sender has closed the connection
RecvEOF ==
    /\ r_running
    /\ data_chan = <<>>
    /\ ~sock_open
    /\ r_running' = FALSE
    /\ UNCHANGED fixedVars
    /\ UNCHANGED <<senderCore, timers, lock, running, pc_main, pc_ack, ack_num,
                   callback, sock_open, expected_seq_num, received_message,
                   last_accepted_seq, accepted, data_chan, ack_chan, data_lost,
                   data_err, ack_lost, acked>>

\* ---------------------------------------------------------------------
\* Specification
\* ---------------------------------------------------------------------
Next ==
    \/ MainAcquire
    \/ MainFill
    \/ MainLoopEnd
    \/ MainCleanup
    \/ AckRecv
    \/ AckProcess
    \/ AckStop
    \/ \E seq \in SeqNums : TimerFire(seq)
    \/ \E seq \in SeqNums : CbAcquire(seq)
    \/ \E seq \in SeqNums : CbRetransmit(seq)
    \/ RecvData
    \/ RecvEOF

Spec == Init /\ [][Next]_vars

\* Scheduling: every thread that can run does run, and a thread blocked on
\* the lock gets it (the send loop sleeps between its lock sections, so the
\* lock is free again and again).  A timer expires unless it is restarted
\* first.  The fault injector drops and corrupts finitely often
\* (MaxDataLoss, MaxDataErr, MaxAckLoss).
\*
\* Weak fairness of the steps that finish a lock section and of the
\* receiver's step is written []<>~Enabled \/ []<><<Step>>_vars, with the
\* enabling condition and the step given by the thread's position: a lock
\* section, once entered, always has a next step.
InMainFill == pc_main = "in"
MainFillStep == pc_main = "in" /\ pc_main' = "loop"
InAckProcess == pc_ack = "in"
AckProcessStep == pc_ack = "in" /\ pc_ack' = "recv"
InRetransmit == \E seq \in SeqNums : callback[seq] = "in"
RetransmitStep ==
    \E seq \in SeqNums : callback[seq] = "in" /\ callback'[seq] = "none"
CanRecvData ==
    /\ r_running
    /\ data_chan # <<>>
    /\ Head(data_chan).frame_type = "DATA"
    /\ sock_open => Len(ack_chan) < MaxAckChan
RecvDataStep == CanRecvData /\ data_chan' = Tail(data_chan)

Fairness ==
    /\ SF_vars(MainAcquire)
    /\ WF_vars(MainLoopEnd)
    /\ WF_vars(MainCleanup)
    /\ SF_vars(AckRecv)
    /\ WF_vars(AckStop)
    /\ WF_vars(\E seq \in SeqNums : TimerFire(seq))
    /\ SF_vars(\E seq \in SeqNums : CbAcquire(seq))
    /\ WF_vars(RecvEOF)
    /\ ([]<>(~InMainFill) \/ []<><<MainFillStep>>_vars)
    /\ ([]<>(~InAckProcess) \/ []<><<AckProcessStep>>_vars)
    /\ ([]<>(~InRetransmit) \/ []<><<RetransmitStep>>_vars)
    /\ ([]<>(~CanRecvData) \/ []<><<RecvDataStep>>_vars)

FairSpec == Spec /\ Fairness

\* ---------------------------------------------------------------------
\* Scenario A: ScenarioChunks chunks are sent, the first transmission of
\* chunk DroppedFrame is dropped by simulate_loss, and there is no other
\* loss or corruption.  TIMEOUT (2 s) is long against the delivery of a
\* frame on the loopback connection and the 0.1 s pause of the send loop: a
\* timer expires only when nothing is in flight and the send loop has
\* nothing to add.
\* ---------------------------------------------------------------------
ScenarioInit ==
    /\ Start(ScenarioChunks, MaxDataLoss - 1, MaxDataErr, MaxAckLoss)
    /\ call_args = <<>>
    /\ call_result = <<>>

\* the frames a step of the sender writes to the stream
NewFrames == SubSeq(data_chan', Len(data_chan) + 1, Len(data_chan'))

\* chunk positions of a sequence of frames
Positions(frames) == [i \in 1 .. Len(frames) |-> frames[i].pos]

\* simulate_loss returns True for the first transmission of chunk
\* DroppedFrame and for no other frame
ScenarioFill ==
    /\ MainFill
    /\ (data_lost' # data_lost)
          <=> (data_index <= DroppedFrame /\ DroppedFrame < data_index')
    /\ \A p \in data_index .. data_index' - 1 :
          p # DroppedFrame => \E i \in 1 .. Len(NewFrames) : NewFrames[i].pos = p

\* nothing is in flight, no ACK is being processed and the send loop has
\* nothing to add
Quiescent ==
    /\ data_chan = <<>>
    /\ ack_chan = <<>>
    /\ pc_ack = "recv"
    /\ ~(WindowHasRoom(send_buffer) /\ data_index < num_chunks)

ScenarioTimerFire(seq) == Quiescent /\ TimerFire(seq)

ScenarioNext ==
    \/ MainAcquire
    \/ ScenarioFill
    \/ MainLoopEnd
    \/ MainCleanup
    \/ AckRecv
    \/ AckProcess
    \/ AckStop
    \/ \E seq \in SeqNums : ScenarioTimerFire(seq)
    \/ \E seq \in SeqNums : CbAcquire(seq)
    \/ \E seq \in SeqNums : CbRetransmit(seq)
    \/ RecvData
    \/ RecvEOF

\* the scheduling of Fairness; the timer of the dropped frame, started
\* before the timers of the frames behind it, does expire and its callback
\* does get the lock
ScenarioFairness ==
    /\ SF_vars(MainAcquire)
    /\ WF_vars(MainLoopEnd)
    /\ WF_vars(MainCleanup)
    /\ SF_vars(AckRecv)
    /\ WF_vars(AckStop)
    /\ SF_vars(ScenarioTimerFire(DroppedFrame % (MAX_SEQ_NUM + 1)))
    /\ SF_vars(CbAcquire(DroppedFrame % (MAX_SEQ_NUM + 1)))
    /\ SF_vars(\E seq \in SeqNums : CbAcquire(seq))
    /\ WF_vars(RecvEOF)
    /\ ([]<>(~InMainFill) \/ []<><<MainFillStep>>_vars)
    /\ ([]<>(~InAckProcess) \/ []<><<AckProcessStep>>_vars)
    /\ ([]<>(~InRetransmit) \/ []<><<RetransmitStep>>_vars)
    /\ ([]<>(~CanRecvData) \/ []<><<RecvDataStep>>_vars)

ScenarioA == ScenarioInit /\ [][ScenarioNext]_vars /\ ScenarioFairness

\* ---------------------------------------------------------------------
\* The connection closed by the peer, and messages that do not decode
\* into a frame.  Neither happens between a sender and a receiver of this
\* program that run to the end: they are inputs of the environment (the
\* receiver process is stopped; a peer writes a message that is no frame).
\* ---------------------------------------------------------------------
\* what Frame.from_json raises on a message that is no frame: the body is
\* no JSON text (json.loads), a required key is missing (data['seq_num'],
\* data['frame_type']), the bytes are no UTF-8 (frame_bytes.decode)
MalformedKinds == {"JSONDecodeError", "KeyError", "UnicodeDecodeError"}

\* a message on the DATA stream that raises kind when it is decoded
Malformed(kind) == Frame(0, kind, <<>>, 0, None)

\* the same on the ACK stream, where well-formed ACKs are their numbers
MalformedAck(kind) ==
    MAX_SEQ_NUM + (CASE kind = "JSONDecodeError" -> 1
                     [] kind = "KeyError" -> 2
                     [] OTHER -> 3)

\* the except clause that handles kind ends the loop: only
\* json.JSONDecodeError has a clause of its own, everything else falls to
\* `except Exception`, which sets running = False
Fatal(kind) == kind # "JSONDecodeError"

NoMalformedInFlight ==
    /\ \A i \in 1 .. Len(data_chan) : data_chan[i].frame_type = "DATA"
    /\ \A i \in 1 .. Len(ack_chan) : ack_chan[i] \in SeqNums

\* the receiver process is stopped: main_receiver's finally block closes
\* the connection
PeerClose ==
    /\ r_running
    /\ sock_open
    /\ r_running' = FALSE
    /\ UNCHANGED fixedVars
    /\ UNCHANGED <<senderCore, timers, lock, running, pc_main, pc_ack, ack_num,
                   callback, sock_open, expected_seq_num, received_message,
                   last_accepted_seq, accepted, data_chan, ack_chan, data_lost,
                   data_err, ack_lost, acked>>

\* listen_for_acks: recv returns no bytes, or raises ConnectionResetError
AckEOF ==
    /\ pc_ack = "recv"
    /\ running
    /\ ack_chan = <<>>
    /\ ~r_running
    /\ running' = FALSE
    /\ pc_ack' = "done"
    /\ UNCHANGED fixedVars
    /\ UNCHANGED <<senderCore, timers, lock, pc_main, ack_num, callback,
                   sock_open, receiverVars, data_chan, ack_chan, data_lost,
                   data_err, ack_lost, acked>>

\* a message that is no frame is written to the DATA stream
InjectData(kind) ==
    /\ r_running
    /\ sock_open
    /\ NoMalformedInFlight
    /\ data_chan' = Append(data_chan, Malformed(kind))
    /\ UNCHANGED fixedVars
    /\ UNCHANGED <<senderCore, timers, lock, running, pc_main, pc_ack, ack_num,
                   callback, sock_open, receiverVars, ack_chan, data_lost,
                   data_err, ack_lost, acked>>

\* a message that is no frame is written to the ACK stream
InjectAck(kind) ==
    /\ running
    /\ r_running
    /\ NoMalformedInFlight
    /\ Len(ack_chan) < MaxAckChan
    /\ ack_chan' = Append(ack_chan, MalformedAck(kind))
    /\ UNCHANGED fixedVars
    /\ UNCHANGED <<senderCore, timers, lock, running, pc_main, pc_ack, ack_num,
                   callback, sock_open, receiverVars, data_chan, data_lost,
                   data_err, ack_lost, acked>>

\* main_receiver: Frame.from_json raises
RecvMalformed ==
    /\ r_running
    /\ data_chan # <<>>
    /\ Head(data_chan).frame_type \in MalformedKinds
    /\ data_chan' = Tail(data_chan)
    /\ r_running' = (r_running /\ ~Fatal(Head(data_chan).frame_type))
    /\ UNCHANGED fixedVars
    /\ UNCHANGED <<senderCore, timers, lock, running, pc_main, pc_ack, ack_num,
                   callback, sock_open, expected_seq_num, received_message,
                   last_accepted_seq, accepted, ack_chan, data_lost, data_err,
                   ack_lost, acked>>

\* listen_for_acks: Frame.from_json raises
AckMalformed ==
    /\ pc_ack = "recv"
    /\ running
    /\ ack_chan # <<>>
    /\ \E kind \in MalformedKinds :
          /\ Head(ack_chan) = MalformedAck(kind)
          /\ running' = (running /\ ~Fatal(kind))
          /\ pc_ack' = (IF Fatal(kind) THEN "done" ELSE "recv")
    /\ ack_chan' = Tail(ack_chan)
    /\ UNCHANGED fixedVars
    /\ UNCHANGED <<senderCore, timers, lock, pc_main, ack_num, callback,
                   sock_open, receiverVars, data_chan, data_lost, data_err,
                   ack_lost, acked>>

\* no injected loss or corruption
EnvInit ==
    /\ Start(NumMessageChunks, MaxDataLoss, MaxDataErr, MaxAckLoss)
    /\ call_args = <<>>
    /\ call_result = <<>>

EnvNext ==
    \/ Next
    \/ PeerClose
    \/ AckEOF
    \/ \E kind \in MalformedKinds : InjectData(kind)
    \/ \E kind \in MalformedKinds : InjectAck(kind)
    \/ RecvMalformed
    \/ AckMalformed

EnvSpec == EnvInit /\ [][EnvNext]_vars

\* ---------------------------------------------------------------------
\* Functions called on their own: call_args holds the arguments, one step
\* makes the call and stores what it returns in call_result
\* ---------------------------------------------------------------------
programVars == <<sequence_number, expected_ack, send_buffer, timers, lock,
                 running, data_index, pc_main, pc_ack, ack_num, callback,
                 sock_open, expected_seq_num, received_message,
                 last_accepted_seq, r_running, data_chan, ack_chan, data_lost,
                 data_err, ack_lost, accepted, acked, num_chunks>>

\* seq_greater_equal(s1, s2) for every pair of sequence numbers
CompareInit ==
    /\ Start(NumMessageChunks, 0, 0, 0)
    /\ call_args \in SeqNums \X SeqNums
    /\ call_result = <<>>

CompareCall ==
    /\ call_result = <<>>
    /\ call_result' = <<seq_greater_equal(call_args[1], call_args[2])>>
    /\ UNCHANGED <<programVars, call_args>>

CompareSpec == CompareInit /\ [][CompareCall]_vars

\* byte values of the longer payloads: the ends of the range, both sides of
\* the top bit, and bytes of the message ("E", and the encoding of "\u00e9")
PayloadBytes == {0, 1, 69, 127, 128, 169, 195, 255}

RECURSIVE SeqsUpTo(_, _)
SeqsUpTo(S, n) ==
    IF n = 0 THEN {<<>>}
    ELSE LET shorter == SeqsUpTo(S, n - 1)
         IN shorter \cup {Append(s, x) : s \in shorter, x \in S}

\* every payload of one byte, and the payloads up to MaxPayloadLen bytes
\* over PayloadBytes
Payloads ==
    {<<b>> : b \in 0 .. 255} \cup SeqsUpTo(PayloadBytes, MaxPayloadLen)

\* verify_crc8 against calculate_crc8(payload), of the payload itself and
\* of the payload with one bit flipped
CrcInit ==
    /\ Start(NumMessageChunks, 0, 0, 0)
    /\ call_args \in {<<payload>> : payload \in Payloads}
    /\ call_result = <<>>

VerifyUnmodified ==
    /\ call_result = <<>>
    /\ call_result' =
          <<"unmodified",
            verify_crc8(call_args[1], calculate_crc8(call_args[1]))>>
    /\ UNCHANGED <<programVars, call_args>>

VerifyFlipped(byte_index, bit) ==
    /\ call_result = <<>>
    /\ byte_index \in 1 .. Len(call_args[1])
    /\ call_result' =
          <<"flipped",
            verify_crc8(FlipBit(call_args[1], byte_index, bit),
                        calculate_crc8(call_args[1])),
            FlipBit(call_args[1], byte_index, bit)>>
    /\ UNCHANGED <<programVars, call_args>>

CrcNext ==
    \/ VerifyUnmodified
    \/ \E byte_index \in 1 .. MaxPayloadLen, bit \in 0 .. 7 :
          VerifyFlipped(byte_index, bit)

CrcSpec == CrcInit /\ [][CrcNext]_vars

\* ---------------------------------------------------------------------
\* Claims
\* ---------------------------------------------------------------------
\* the original chunk sequence
AllChunks == [i \in 1 .. num_chunks |-> message_chunks(i - 1)]

\* (received_frame.seq_num - base) mod (MAX_SEQ_NUM + 1)
Offset(seq, base) == (seq - base) % (MAX_SEQ_NUM + 1)

\* C1: eventual delivery: under fair scheduling and finitely many drops the
\* receiver's assembled list eventually equals the original chunk sequence
\* and the send loop ends with an empty send_buffer.
C1_EventualDelivery ==
    <>(/\ received_message = AllChunks
       /\ send_buffer = <<>>
       /\ pc_main \in {"exited", "done"})

\* C2: the assembled list is chunk positions 0, 1, ..., k-1 in order, one
\* element per position, and it changes only by appending one element.
C2_AssembledInOrder ==
    /\ [](/\ Len(received_message) = Len(accepted)
          /\ \A i \in 1 .. Len(accepted) : accepted[i] = i - 1)
    /\ [][\/ received_message' = received_message
          \/ \E x \in {Head(data_chan).data : i \in 1 .. Min(1, Len(data_chan))} :
                received_message' = Append(received_message, x)]_vars

\* C2 witness: every chunk of the message has been accepted, the sequence
\* numbers having wrapped around.
C2_Witness ==
    /\ Len(accepted) = NumMessageChunks
    /\ NumMessageChunks > MAX_SEQ_NUM + 1

\* C3: every element of the assembled list equals the chunk the application
\* gave the sender for that position.
C3_NoCorruptedPayloadAppended ==
    \A i \in 1 .. Len(received_message) :
        received_message[i] = message_chunks(accepted[i])

\* C4: send_buffer holds at most WINDOW_SIZE frames and every buffered
\* seq_num lies in [expected_ack, expected_ack + WINDOW_SIZE) modulo
\* MAX_SEQ_NUM + 1.
C4_WindowBound ==
    /\ Len(send_buffer) <= WINDOW_SIZE
    /\ \A i \in 1 .. Len(send_buffer) :
          Offset(send_buffer[i].seq_num, expected_ack) < WINDOW_SIZE

\* C4 witness: a full window that spans the wraparound of the sequence
\* numbers.
C4_Witness ==
    /\ Len(send_buffer) = WINDOW_SIZE
    /\ expected_ack > MAX_SEQ_NUM + 1 - WINDOW_SIZE

\* C5: positions the base has advanced <= frames the receiver has accepted
\* (the positions expected_seq_num has advanced) <= frames the sender has
\* assigned.
C5_RemovedOnlyAfterAccepted ==
    /\ acked <= Len(accepted)
    /\ expected_seq_num = Len(accepted) % (MAX_SEQ_NUM + 1)
    /\ Len(accepted) <= data_index
    /\ sequence_number = data_index % (MAX_SEQ_NUM + 1)
    /\ expected_ack = acked % (MAX_SEQ_NUM + 1)

\* C5 witness: the base has advanced, and the receiver is ahead of it.
C5_Witness ==
    /\ acked > 0
    /\ acked < Len(accepted)
    /\ Len(accepted) < data_index

\* positions behind the base at which an ACK number lies
Behind(ack, base) == Offset(base, ack)

\* C6: an ACK numbered (expected_ack + k) mod (MAX_SEQ_NUM + 1), k in
\* 1..WINDOW_SIZE, makes the sender set expected_ack to that number and
\* remove the k acknowledged frames from send_buffer.
C6_CumulativeAckAdvances ==
    [][(/\ AckProcessStep
        /\ Offset(ack_num, expected_ack) \in 1 .. WINDOW_SIZE)
       => /\ expected_ack' = ack_num
          /\ \A seq \in BufKeys(send_buffer') :
                Offset(seq, expected_ack) >= Offset(ack_num, expected_ack)]_vars

C8_StaleExpiryIsNoOp ==
    [][(\E seq \in SeqNums :
           /\ callback[seq] = "in"
           /\ callback'[seq] = "none"
           /\ seq \notin BufKeys(send_buffer))
       => UNCHANGED <<data_chan, data_lost, data_err, timers, send_buffer>>]_vars

\* the number of sender paths that are inside their `with lock` block
InsideLock ==
    (IF pc_main = "in" THEN 1 ELSE 0)
    + (IF pc_ack = "in" THEN 1 ELSE 0)
    + Cardinality({seq \in SeqNums : callback[seq] = "in"})

\* C9: at most one of the send loop, the ACK listener and the timer
\* callbacks is inside its mutation of the shared sender state, and it
\* holds the lock.
C9_Serialized ==
    /\ InsideLock <= 1
    /\ lock <=> InsideLock = 1

\* C9 witness: a timer callback holds the lock while the ACK listener has an
\* ACK to read and the send loop wants to fill the window.
C9_Witness ==
    /\ \E seq \in SeqNums : callback[seq] = "in"
    /\ ack_chan # <<>>
    /\ pc_main = "loop"
    /\ SendLoopCond
    /\ data_index < NumMessageChunks

\* the frame at the head of the stream fails the CRC check
HeadCrcMismatch ==
    /\ data_chan # <<>>
    /\ calculate_crc8(Utf8Encode(Head(data_chan).data)) # Head(data_chan).crc

\* C10: on a DATA frame whose CRC does not match its payload, whatever its
\* seq_num, expected_seq_num, last_accepted_seq and the assembled list are
\* unchanged and one ACK carrying the unchanged expected_seq_num is handed
\* to send_ack: it is written to the stream, or dropped by the fault
\* injector, or the connection is closed.
C10_CrcMismatchDiscard ==
    [][(RecvDataStep /\ HeadCrcMismatch)
       => /\ UNCHANGED <<expected_seq_num, last_accepted_seq,
                         received_message>>
          /\ \/ /\ sock_open
                /\ ack_chan' = Append(ack_chan, expected_seq_num)
                /\ ack_lost' = ack_lost
             \/ /\ ack_chan' = ack_chan
                /\ ack_lost' = ack_lost + 1
             \/ /\ ~sock_open
                /\ UNCHANGED <<ack_chan, ack_lost>>]_vars

\* C10 witness: the receiver is about to read a frame that fails the CRC
\* check and carries the expected sequence number.
C10_Witness ==
    /\ CanRecvData
    /\ HeadCrcMismatch
    /\ Head(data_chan).seq_num = expected_seq_num
    /\ sock_open

\* one call send_ack(n): the ACK is written to the stream, or dropped by
\* the fault injector, or the connection is closed
OneAckHanded(n) ==
    \/ /\ sock_open
       /\ ack_chan' = Append(ack_chan, n)
       /\ ack_lost' = ack_lost
    \/ /\ ack_chan' = ack_chan
       /\ ack_lost' = ack_lost + 1
    \/ /\ ~sock_open
       /\ UNCHANGED <<ack_chan, ack_lost>>

\* the frame at the head of the stream passes the CRC check and does not
\* carry the expected sequence number
HeadOutOfOrder ==
    /\ data_chan # <<>>
    /\ ~HeadCrcMismatch
    /\ Head(data_chan).seq_num # expected_seq_num

\* C11: a CRC-valid DATA frame whose seq_num differs from expected_seq_num
\* (ahead, behind, or a repetition of the frame just accepted) is discarded:
\* the assembled list, expected_seq_num and last_accepted_seq are unchanged
\* and one ACK carrying expected_seq_num is handed to send_ack; a frame is
\* never appended twice.
C11_OutOfOrderDiscard ==
    [][(RecvDataStep /\ HeadOutOfOrder)
       => /\ UNCHANGED <<expected_seq_num, last_accepted_seq,
                         received_message, accepted>>
          /\ OneAckHanded(expected_seq_num)]_vars

\* C11 witness: the receiver is about to read a CRC-valid repetition of the
\* frame it accepted last.
C11_Witness ==
    /\ CanRecvData
    /\ ~HeadCrcMismatch
    /\ Head(data_chan).seq_num = last_accepted_seq
    /\ Head(data_chan).pos = accepted[Len(accepted)]
    /\ sock_open

\* the chunk positions behind the dropped one
AfterDropped == (DroppedFrame + 1) .. (num_chunks - 1)

\* C12: Scenario A.  While chunk DroppedFrame is missing, every later frame
\* the receiver reads is discarded and answered with ACK DroppedFrame; the
\* callback of the timer of the dropped frame runs after all the later
\* chunks were sent and read, and it retransmits the dropped frame and every
\* later one, in order, each with a fresh timer; and the receiver ends, its
\* assembled list being all the chunks in order.
C12_ScenarioA ==
    /\ [][(/\ RecvDataStep
            /\ Len(accepted) = DroppedFrame
            /\ Head(data_chan).pos \in AfterDropped)
           => /\ UNCHANGED <<expected_seq_num, last_accepted_seq,
                             received_message, accepted>>
              /\ ack_chan' = Append(ack_chan, DroppedFrame)]_vars
    /\ [][(/\ callback[DroppedFrame] = "in"
            /\ callback'[DroppedFrame] = "none")
           => /\ Len(accepted) = DroppedFrame
              /\ data_index = num_chunks
              /\ \A i \in 1 .. Len(data_chan) :
                    data_chan[i].pos \in AfterDropped
              /\ Positions(send_buffer) =
                    [i \in 1 .. num_chunks - DroppedFrame |->
                        DroppedFrame + i - 1]
              /\ Positions(NewFrames) = Positions(send_buffer)
              /\ \A i \in 1 .. Len(send_buffer) :
                    timers'[send_buffer[i].seq_num] = "armed"]_vars
    /\ [](~r_running => received_message = AllChunks)
    /\ <>(~r_running)

\* C12 witness: the receiver has ended with all the chunks, after the
\* timeout of the dropped frame (the only way the dropped chunk arrives).
C12_Witness ==
    /\ ~r_running
    /\ Len(received_message) = ScenarioChunks
    /\ data_lost = MaxDataLoss
    /\ pc_main = "done"

\* C13: once the peer has closed the connection the sender sets running to
\* false and ends, and after main_sender's cleanup has run no timer is
\* pending: no callback has started a new timer.
C13_NoLiveTimerAfterCleanup ==
    pc_main = "done" => \A seq \in SeqNums : timers[seq] # "armed"

\* the receiver reads a message that is no frame
RecvMalformedStep ==
    /\ r_running
    /\ data_chan # <<>>
    /\ Head(data_chan).frame_type \in MalformedKinds
    /\ data_chan' = Tail(data_chan)

\* the ACK listener reads a message that is no frame
AckMalformedStep ==
    /\ pc_ack = "recv"
    /\ running
    /\ ack_chan # <<>>
    /\ Head(ack_chan) \notin SeqNums
    /\ ack_chan' = Tail(ack_chan)

\* C14: a message that does not decode into a frame is dropped, changes no
\* protocol state, and leaves the session running, at the receiver and at
\* the sender.
C14_MalformedNonFatal ==
    [][/\ RecvMalformedStep
          => /\ UNCHANGED <<expected_seq_num, received_message,
                            last_accepted_seq>>
             /\ r_running'
       /\ AckMalformedStep
          => /\ UNCHANGED <<expected_ack, send_buffer, sequence_number,
                            timers>>
             /\ running']_vars

\* C15: for all a, b in 0..MAX_SEQ_NUM, seq_greater_equal(a, b) is true when
\* a = b, is a > b when |a - b| <= MAX_SEQ_NUM / 2, and is a < b otherwise.
C15_SequenceComparison ==
    call_result # <<>>
        => LET a == call_args[1]
               b == call_args[2]
               near == 2 * (IF a > b THEN a - b ELSE b - a) <= MAX_SEQ_NUM
           IN call_result[1] = (\/ a = b
                                \/ near /\ a > b
                                \/ ~near /\ a < b)

\* C15 witness: a call on a pair more than MAX_SEQ_NUM / 2 apart, where the
\* order is inverted: the smaller number is the later one.
C15_Witness ==
    /\ call_result = <<TRUE>>
    /\ call_args[1] < call_args[2]
    /\ call_args[2] - call_args[1] = WINDOW_SIZE

\* C16: verify_crc8(payload, calculate_crc8(payload)) is true, and
\* verify_crc8(flipped, calculate_crc8(payload)) is false for every flipped
\* that differs from payload in exactly one bit.
C16_SingleBitErrorDetected ==
    call_result # <<>>
        => /\ call_result[1] = "unmodified" => call_result[2]
           /\ call_result[1] = "flipped" => ~call_result[2]

\* C16 witness: a bit of the second byte of a payload was flipped and the
\* check has been made.
C16_Witness ==
    /\ call_result # <<>>
    /\ call_result[1] = "flipped"
    /\ Len(call_args[1]) = 2
    /\ call_result[3][1] = call_args[1][1]
    /\ call_result[3][2] # call_args[1][2]

\* the sequence numbers in [base, ack) modulo MAX_SEQ_NUM + 1
AckedRange(base, ack) ==
    {seq \in SeqNums : Offset(seq, base) < Offset(ack, base)}

\* C17: when the processing of an ACK moves the base, it removes from
\* send_buffer exactly the entries with seq_num in [expected_ack, ack_num)
\* modulo MAX_SEQ_NUM + 1, deletes exactly their timers, sets expected_ack
\* to ack_num, and leaves every other frame, every other timer and
\* sequence_number unchanged.
C17_ProgressAckEffect ==
    [][(AckProcessStep /\ expected_ack' # expected_ack)
       => LET cleared == AckedRange(expected_ack, ack_num) IN
          /\ expected_ack' = ack_num
          /\ send_buffer' =
                SelectSeq(send_buffer, LAMBDA f : f.seq_num \notin cleared)
          /\ timers' = [seq \in SeqNums |->
                           IF seq \in cleared /\ seq \in BufKeys(send_buffer)
                           THEN "none" ELSE timers[seq]]
          /\ sequence_number' = sequence_number]_vars

\* C17 witness: a cumulative ACK for two or more frames is about to be
\* processed, and frames behind it stay in send_buffer.
C17_Witness ==
    /\ pc_ack = "in"
    /\ IsProgress(ack_num, expected_ack)
    /\ Offset(ack_num, expected_ack) >= 2
    /\ Len(send_buffer) > Offset(ack_num, expected_ack)

\* the buffered sequence numbers at or after seq in window order
AtOrAfter(seq) ==
    {s \in BufKeys(send_buffer) :
        Offset(s, expected_ack) >= Offset(seq, expected_ack)}

\* the entries of send_buffer: key and frame object, in order (the fields of
\* a frame object are not part of it)
Entries(buf) == [i \in 1 .. Len(buf) |-> <<buf[i].seq_num, buf[i].pos>>]

HeadInOrder ==
    /\ data_chan # <<>>
    /\ ~HeadCrcMismatch
    /\ Head(data_chan).seq_num = expected_seq_num

\* C19: on a CRC-valid DATA frame with seq_num = expected_seq_num,
\* expected_seq_num advances by exactly 1 modulo MAX_SEQ_NUM + 1 and one ACK
\* carrying the new value is handed to send_ack; expected_seq_num changes,
\* and a frame is accepted, in no other step.
C19_InOrderAcceptance ==
    [][/\ (RecvDataStep /\ HeadInOrder)
          => /\ expected_seq_num' =
                   (expected_seq_num + 1) % (MAX_SEQ_NUM + 1)
             /\ OneAckHanded((expected_seq_num + 1) % (MAX_SEQ_NUM + 1))
       /\ (expected_seq_num' # expected_seq_num \/ accepted' # accepted)
          => (RecvDataStep /\ HeadInOrder)]_vars

\* C19 witness: the receiver is about to accept the frame numbered
\* MAX_SEQ_NUM, after which the numbers wrap around.
C19_Witness ==
    /\ CanRecvData
    /\ HeadInOrder
    /\ expected_seq_num = MAX_SEQ_NUM
    /\ sock_open

\* C20: whenever no sender path holds the lock, the sequence numbers that
\* have a timer entry are the sequence numbers in send_buffer, and during
\* the session every buffered frame has a retransmission scheduled: its
\* timer is running, or has expired with its callback still to run.
C20_TimersMatchBuffer ==
    ~lock
        => /\ TimerKeys(timers) = BufKeys(send_buffer)
           /\ \A seq \in BufKeys(send_buffer) :
                 \/ timers[seq] = "armed"
                 \/ timers[seq] = "fired" /\ callback[seq] # "none"

\* C20 witness: the lock is free, the window is full, frames have been
\* acknowledged and their timers deleted, and an expired timer's callback
\* waits for the lock.
C20_Witness ==
    /\ ~lock
    /\ Len(send_buffer) = WINDOW_SIZE
    /\ acked > 0
    /\ \E seq \in SeqNums : timers[seq] = "fired" /\ callback[seq] = "wait"

\* C21: last_accepted_seq is unset or is the number just before
\* expected_seq_num modulo MAX_SEQ_NUM + 1, so it never equals
\* expected_seq_num; every CRC-valid DATA frame carrying expected_seq_num has
\* its payload appended to the assembled list, and expected_seq_num never
\* changes without one element being appended.
C21_LastAcceptedTrailsExpected ==
    /\ [](\/ last_accepted_seq = None
          \/ last_accepted_seq =
                (expected_seq_num + MAX_SEQ_NUM) % (MAX_SEQ_NUM + 1))
    /\ [](last_accepted_seq # expected_seq_num)
    /\ [][/\ (RecvDataStep /\ HeadInOrder)
             => received_message' =
                   Append(received_message, Head(data_chan).data)
          /\ expected_seq_num' # expected_seq_num
             => Len(received_message') = Len(received_message) + 1]_vars

\* C21 witness: the sequence numbers have wrapped around, so the frame about
\* to be accepted carries a number that was accepted before, and the last
\* accepted number is MAX_SEQ_NUM.
C21_Witness ==
    /\ CanRecvData
    /\ HeadInOrder
    /\ Len(received_message) = MAX_SEQ_NUM + 1
    /\ last_accepted_seq = MAX_SEQ_NUM
    /\ expected_seq_num = 0

\* the sequence numbers of send_buffer in insertion order are base, base + 1,
\* ... modulo MAX_SEQ_NUM + 1
ConsecutiveFrom(buf, base) ==
    \A i \in 1 .. Len(buf) :
        buf[i].seq_num = (base + i - 1) % (MAX_SEQ_NUM + 1)

\* C22: whenever no sender path holds the lock, send_buffer holds exactly the
\* consecutive sequence numbers expected_ack, ..., sequence_number - 1 modulo
\* MAX_SEQ_NUM + 1, so (sequence_number - expected_ack) mod (MAX_SEQ_NUM + 1)
\* is len(send_buffer); chunk i is given the sequence number
\* i mod (MAX_SEQ_NUM + 1); and a frame is created only while
\* len(send_buffer) < WINDOW_SIZE.
C22_BufferIsWindow ==
    /\ [](~lock
             => /\ ConsecutiveFrom(send_buffer, expected_ack)
                /\ Len(send_buffer) =
                      (sequence_number + MAX_SEQ_NUM + 1 - expected_ack)
                         % (MAX_SEQ_NUM + 1)
                /\ Cardinality(BufKeys(send_buffer)) = Len(send_buffer))
    /\ [](/\ sequence_number = data_index % (MAX_SEQ_NUM + 1)
          /\ \A i \in 1 .. Len(send_buffer) :
                send_buffer[i].seq_num =
                   send_buffer[i].pos % (MAX_SEQ_NUM + 1))
    /\ [][data_index' # data_index
             => /\ data_index' > data_index
                /\ Len(send_buffer') =
                      Len(send_buffer) + (data_index' - data_index)
                /\ Len(send_buffer') <= WINDOW_SIZE]_vars

\* C22 witness: the lock is free and a full window lies across the
\* wraparound of the sequence numbers.
C22_Witness ==
    /\ ~lock
    /\ Len(send_buffer) = WINDOW_SIZE
    /\ sequence_number < expected_ack
    /\ data_index > MAX_SEQ_NUM

\* the send loop has ended and running is still true
LoopEndedNormally == pc_main = "exited" /\ running

\* C23: in any state where the send loop has exited with running still true,
\* every chunk has been enqueued, send_buffer is empty and the receiver's
\* assembled list has as many elements as the message has chunks.
C23_NormalEndMeansAllAccepted ==
    LoopEndedNormally
        => /\ data_index = num_chunks
           /\ send_buffer = <<>>
           /\ Len(received_message) = num_chunks

\* C23 witness: the loop has ended normally after a message longer than the
\* sequence space, with a DATA frame dropped, a frame corrupted and ACKs
\* lost on the way.
C23_Witness ==
    /\ LoopEndedNormally
    /\ num_chunks > MAX_SEQ_NUM + 1
    /\ data_lost = MaxDataLoss
    /\ data_err = MaxDataErr
    /\ ack_lost = MaxAckLoss

====
